---- MODULE Spec2Model ----
(***************************************************************************)
(* Model of the VGA text-mode writer of alice_os (src/src/vga_buffer.rs)   *)
(* and of its shared, lock-protected, lazily constructed instance WRITER.  *)
(*                                                                         *)
(* The grid geometry is scaled down: BUFFER_HEIGHT and BUFFER_WIDTH are    *)
(* 25 and 80 in the source; the code is uniform in both, and the model     *)
(* keeps them as the bounds below.                                         *)
(***************************************************************************)
EXTENDS Integers, Sequences, FiniteSets, TLC

\* ------------------------------------------------------------------ bounds
BUFFER_HEIGHT == 3
BUFFER_WIDTH == 2
\* bytes written between two clear_screen calls (or since construction)
MaxBytes == 4

\* ------------------------------------------------------- program constants
NEWLINE == 10
SPACE == 32
TILDE == 126
INVALID_GLYPH == 254

Rows == 0 .. (BUFFER_HEIGHT - 1)
Cols == 0 .. (BUFFER_WIDTH - 1)
U8 == 0 .. 255

\* ------------------------------------------------------------------- Color
Color ==
  [Black |-> 0, Blue |-> 1, Green |-> 2, Cyan |-> 3, Red |-> 4, Magenta |-> 5,
   Brown |-> 6, LightGrey |-> 7, DarkGray |-> 8, LightBlue |-> 9,
   LightGreen |-> 10, LightCyan |-> 11, LightRed |-> 12, Pink |-> 13,
   Yellow |-> 14, White |-> 15]

RECURSIVE BitOr(_, _)
BitOr(a, b) ==
  IF a = 0 THEN b
  ELSE IF b = 0 THEN a
  ELSE (IF (a % 2 = 1) \/ (b % 2 = 1) THEN 1 ELSE 0) + 2 * BitOr(a \div 2, b \div 2)

\* ColorCode::new with the two nibbles exchanged
ColorCode_new_swapped(foreground, background) ==
  BitOr((foreground * 16) % 256, background)

\* ColorCode((background as u8) << 4 | (foreground as u8)), on u8
ColorCode_new(foreground, background) ==
  BitOr((background * 16) % 256, foreground)

ScreenChar(ascii_character, color_code) ==
  [ascii_character |-> ascii_character, color_code |-> color_code]

\* ------------------------------------------------------------------ Buffer
\* One volatile cell access.  `touched` is the set of <<row, col>> index pairs
\* the current operation has used; an index outside the array is recorded
\* there and stores nothing (the indexing expression panics in Rust).
InGrid(row, col) == row \in Rows /\ col \in Cols

cell_write(self, row, col, character) ==
  [self EXCEPT
     !.chars = IF InGrid(row, col)
               THEN [self.chars EXCEPT ![row][col] = character]
               ELSE self.chars,
     !.touched = self.touched \cup {<<row, col>>}]

\* ------------------------------------------------------------------ Writer
\* clear_line whose loop stops one column short
clear_line_short(self, row) ==
  LET blank == ScreenChar(SPACE, self.color_code)
  IN  [self EXCEPT
         !.chars = IF row \in Rows
                   THEN [self.chars EXCEPT ![row] =
                           [col \in Cols |->
                              IF col < BUFFER_WIDTH - 1 THEN blank
                              ELSE self.chars[row][col]]]
                   ELSE self.chars,
         !.touched = self.touched \cup
                       {<<row, col>> : col \in 0 .. (BUFFER_WIDTH - 2)}]

\* clear_line whose loop runs one column too far (0..=BUFFER_WIDTH): the
\* last index is outside the row
clear_line_inclusive(self, row) ==
  LET blank == ScreenChar(SPACE, self.color_code)
  IN  [self EXCEPT
         !.chars = IF row \in Rows
                   THEN [self.chars EXCEPT ![row] = [col \in Cols |-> blank]]
                   ELSE self.chars,
         !.touched = self.touched \cup
                       {<<row, col>> : col \in 0 .. BUFFER_WIDTH}]

\* fn clear_line(&mut self, row): for col in 0..BUFFER_WIDTH write blank
clear_line(self, row) ==
  LET blank == ScreenChar(SPACE, self.color_code)
  IN  [self EXCEPT
         !.chars = IF row \in Rows
                   THEN [self.chars EXCEPT ![row] = [col \in Cols |-> blank]]
                   ELSE self.chars,
         !.touched = self.touched \cup {<<row, col>> : col \in Cols}]

\* copy_row with the attribute byte dropped: the row is copied as characters
\* in the writer's own colour
copy_row_recolored(self, row) ==
  [self EXCEPT
     !.chars = IF row \in Rows /\ (row - 1) \in Rows
               THEN [self.chars EXCEPT
                       ![row - 1] = [col \in Cols |->
                          ScreenChar(self.chars[row][col].ascii_character,
                                     self.color_code)]]
               ELSE self.chars,
     !.touched = self.touched \cup {<<row, col>> : col \in Cols}
                              \cup {<<row - 1, col>> : col \in Cols}]

\* the inner loop of new_line, for col in 0..BUFFER_WIDTH:
\*   chars[row - 1][col].write(chars[row][col].read())
copy_row(self, row) ==
  [self EXCEPT
     !.chars = IF row \in Rows /\ (row - 1) \in Rows
               THEN [self.chars EXCEPT
                       ![row - 1] = [col \in Cols |-> self.chars[row][col]]]
               ELSE self.chars,
     !.touched = self.touched \cup {<<row, col>> : col \in Cols}
                              \cup {<<row - 1, col>> : col \in Cols}]

\* the outer loop of new_line: for row in 1..BUFFER_HEIGHT
RECURSIVE scroll_from(_, _)
scroll_from(self, row) ==
  IF row >= BUFFER_HEIGHT THEN self
  ELSE scroll_from(copy_row(self, row), row + 1)

\* new_line that scrolls and clears but leaves column_position alone
new_line_keeps_column(self) ==
  LET scrolled == scroll_from(self, 1)
      reset == [scrolled EXCEPT !.scrolls = @ + 1]
  IN  clear_line(reset, BUFFER_HEIGHT - 1)

new_line(self) ==
  LET scrolled == scroll_from(self, 1)
      reset == [scrolled EXCEPT !.column_position = 0,
                                !.scrolls = @ + 1]
  IN  clear_line(reset, BUFFER_HEIGHT - 1)

\* write_byte with the wrap test written `>` instead of `>=`
write_byte_late_wrap(self, byte) ==
  IF byte = NEWLINE THEN new_line(self)
  ELSE LET wrapped == IF self.column_position > BUFFER_WIDTH
                      THEN new_line(self) ELSE self
           row == BUFFER_HEIGHT - 1
           col == wrapped.column_position
           stored == cell_write(wrapped, row, col,
                                ScreenChar(byte, wrapped.color_code))
       IN  [stored EXCEPT !.column_position = @ + 1]

\* write_byte that wraps as soon as the row is full, after the store
write_byte_eager_wrap(self, byte) ==
  IF byte = NEWLINE THEN new_line(self)
  ELSE LET row == BUFFER_HEIGHT - 1
           col == self.column_position
           stored == cell_write(self, row, col,
                                ScreenChar(byte, self.color_code))
           moved == [stored EXCEPT !.column_position = @ + 1]
       IN  IF moved.column_position >= BUFFER_WIDTH
           THEN new_line(moved) ELSE moved

\* write_byte that wraps one column early: `column_position + 1 >= WIDTH`
write_byte_early_wrap(self, byte) ==
  IF byte = NEWLINE THEN new_line(self)
  ELSE LET wrapped == IF self.column_position + 1 >= BUFFER_WIDTH
                      THEN new_line(self) ELSE self
           row == BUFFER_HEIGHT - 1
           col == wrapped.column_position
           stored == cell_write(wrapped, row, col,
                                ScreenChar(byte, wrapped.color_code))
       IN  [stored EXCEPT !.column_position = @ + 1]

\* write_byte with the wrap test hoisted above the match, so that a newline
\* arriving at a full row wraps first and then breaks the line
write_byte_wrap_first(self, byte) ==
  LET wrapped == IF self.column_position >= BUFFER_WIDTH
                 THEN new_line(self) ELSE self
  IN  IF byte = NEWLINE THEN new_line(wrapped)
      ELSE LET row == BUFFER_HEIGHT - 1
               col == wrapped.column_position
               stored == cell_write(wrapped, row, col,
                                    ScreenChar(byte, wrapped.color_code))
           IN  [stored EXCEPT !.column_position = @ + 1]

write_byte(self, byte) ==
  IF byte = NEWLINE THEN new_line(self)
  ELSE LET wrapped == IF self.column_position >= BUFFER_WIDTH
                      THEN new_line(self) ELSE self
           row == BUFFER_HEIGHT - 1
           col == wrapped.column_position
           stored == cell_write(wrapped, row, col,
                                ScreenChar(byte, wrapped.color_code))
       IN  [stored EXCEPT !.column_position = @ + 1]

\* sanitize with the printable range closed one byte too late (0x7f, DEL)
sanitize_through_del(byte) ==
  IF (byte >= SPACE /\ byte <= TILDE + 1) \/ byte = NEWLINE THEN byte
  ELSE INVALID_GLYPH

\* write_string without the match: every byte handed on as it is
sanitize_nothing(byte) == byte

\* the match of write_string: what is handed to write_byte for a raw byte
sanitize(byte) ==
  IF (byte >= SPACE /\ byte <= TILDE) \/ byte = NEWLINE THEN byte
  ELSE INVALID_GLYPH

RECURSIVE write_string_from(_, _, _)
write_string_from(self, s, i) ==
  IF i > Len(s) THEN self
  ELSE write_string_from(write_byte(self, sanitize(s[i])), s, i + 1)

write_string(self, s) == write_string_from(self, s, 1)

RECURSIVE clear_screen_from(_, _)
clear_screen_from(self, row) ==
  IF row >= BUFFER_HEIGHT THEN self
  ELSE clear_screen_from(clear_line(self, row), row + 1)

clear_screen(self) ==
  [clear_screen_from(self, 0) EXCEPT !.column_position = 0]

\* impl fmt::Write: write_str forwards to write_string and returns Ok(())
write_str(self, s) == [writer |-> write_string(self, s), result |-> "Ok"]

\* ------------------------------------------------------------ shared state
VARIABLES
  WRITER,      \* the Writer behind the lock: column_position, color_code,
               \* chars (the Buffer), plus the bookkeeping fields touched
               \* and scrolls (see Begin)
  once,        \* lazy_static's Once: "INCOMPLETE", "RUNNING", "COMPLETE"
  locked,      \* spin::Mutex's flag
  pc,          \* per context: position inside _print
  text,        \* per context: the text of the print call in progress
  pos,         \* per context: index of the next byte of text to write
  calls,       \* history: texts of the print calls, in lock-acquisition order
  constructed, \* history: how many times the Writer initialiser ran
  boot,        \* history: the grid found in video memory at start
  pre,         \* history: WRITER before the last sequential operation
  last,        \* history: the last sequential operation and its argument
  budget,      \* bytes written since the last clear_screen
  stack,       \* one processor's interrupt nesting: the interrupted contexts,
               \* the running one last (empty where no interrupt is modelled)
  irq_held,    \* history: an interrupt handler entered _print while an
               \* interrupted context held the lock
  fault        \* per context: "none", or whether its panic came with the
               \* lock "held" or "free"

vars == <<WRITER, once, locked, pc, text, pos, calls, constructed, boot,
          pre, last, budget, stack, irq_held, fault>>
envVars == <<stack, irq_held, fault>>
concVars == <<once, locked, pc, text, pos, calls, constructed, boot>>

\* ---------------------------------------------------------------- inputs
NumContexts == 2
MaxCalls == 3
Contexts == 1 .. NumContexts

PRINTABLE_A == 65
PRINTABLE_B == 66
NON_ASCII == 195
SampleBytes == {NEWLINE, PRINTABLE_A, PRINTABLE_B, NON_ASCII}
TextsUpTo(n) == UNION {[1 .. k -> SampleBytes] : k \in 0 .. n}
ConcTexts == {<<PRINTABLE_A, PRINTABLE_B>>, <<PRINTABLE_B, NEWLINE, NON_ASCII>>}

\* What video memory may hold before the first write: whatever the firmware
\* left there, in the firmware's attribute (light grey on black).
BOOT_ATTR == 7
JunkGrid ==
  [row \in Rows |-> [col \in Cols |->
     ScreenChar(48 + row * BUFFER_WIDTH + col, BOOT_ATTR)]]
FirmwareBlankGrid ==
  [row \in Rows |-> [col \in Cols |-> ScreenChar(SPACE, BOOT_ATTR)]]
BootGrids == {JunkGrid, FirmwareBlankGrid}

\* lazy_static! { WRITER = Mutex::new(Writer { column_position: 0, ... }) }
Writer_new(memory) ==
  [column_position |-> 0,
   color_code |-> ColorCode_new(Color.Cyan, Color.Black),
   chars |-> memory,
   touched |-> {},
   scrolls |-> 0]

\* the program-visible part of a Writer
View(w) ==
  [column_position |-> w.column_position, color_code |-> w.color_code,
   chars |-> w.chars]

\* start of one operation: forget the previous operation's bookkeeping
Begin(w) == [w EXCEPT !.touched = {}, !.scrolls = 0]

NoOp == [op |-> "none", arg |-> <<>>]

\* no interrupt taken, no panic raised
EnvIdle ==
  /\ stack = <<>>
  /\ irq_held = FALSE
  /\ fault = [c \in Contexts |-> "none"]

\* ------------------------------------------- Spec: one context, whole calls
Init ==
  /\ boot \in BootGrids
  /\ WRITER = Writer_new(boot)
  /\ once = "COMPLETE"
  /\ locked = FALSE
  /\ pc = [c \in Contexts |-> "idle"]
  /\ text = [c \in Contexts |-> <<>>]
  /\ pos = [c \in Contexts |-> 1]
  /\ calls = <<>>
  /\ constructed = 1
  /\ pre = Begin(WRITER)
  /\ last = NoOp
  /\ budget = 0
  /\ EnvIdle

Record(op, arg, n) ==
  /\ pre' = Begin(WRITER)
  /\ last' = [op |-> op, arg |-> arg]
  /\ budget' = budget + n
  /\ UNCHANGED concVars

WriteString(s) ==
  /\ budget + Len(s) <= MaxBytes
  /\ WRITER' = write_string(Begin(WRITER), s)
  /\ Record("write_string", s, Len(s))

WriteByte(b) ==
  /\ budget + 1 <= MaxBytes
  /\ WRITER' = write_byte(Begin(WRITER), b)
  /\ Record("write_byte", <<b>>, 1)

\* _print that ends every call with a line break, as println does
_print_line(self, s) == write_str(write_str(self, s).writer, <<NEWLINE>>).writer

\* _print(format_args!("{}", s)): lock, write_fmt, unwrap, unlock
_print(self, s) == write_str(self, s).writer

\* println!: print!("{}\n", ...): the text, then the literal newline piece
println(self, s) == write_str(write_str(self, s).writer, <<NEWLINE>>).writer

PrintCall(s) ==
  /\ ~locked
  /\ budget + Len(s) <= MaxBytes
  /\ WRITER' = _print(Begin(WRITER), s)
  /\ Record("print", s, Len(s))

PrintlnCall(s) ==
  /\ ~locked
  /\ budget + Len(s) + 1 <= MaxBytes
  /\ WRITER' = println(Begin(WRITER), s)
  /\ Record("println", s, Len(s) + 1)

ClearScreen ==
  /\ last.op # "clear_screen"
  /\ WRITER' = clear_screen(Begin(WRITER))
  /\ pre' = Begin(WRITER')
  /\ last' = [op |-> "clear_screen", arg |-> <<>>]
  /\ budget' = 0
  /\ UNCHANGED concVars

Next ==
  /\ \/ \E s \in TextsUpTo(MaxBytes - budget) : WriteString(s)
     \/ \E b \in SampleBytes : WriteByte(b)
     \/ \E s \in TextsUpTo(MaxBytes - budget) : PrintCall(s)
     \/ \E s \in TextsUpTo(MaxBytes - budget - 1) : PrintlnCall(s)
     \/ ClearScreen
  /\ UNCHANGED envVars

Spec == Init /\ [][Next]_vars

\* ======================================================== claims under Spec
BlankCell(w) == ScreenChar(SPACE, w.color_code)
BOTTOM == BUFFER_HEIGHT - 1

\* a cleared screen: what clear_screen leaves
Cleared(w) ==
  /\ w.column_position = 0
  /\ \A row \in Rows : \A col \in Cols : w.chars[row][col] = BlankCell(w)

IsPrintable(s) == \A i \in 1 .. Len(s) : s[i] >= SPACE /\ s[i] <= TILDE

\* the last operation handed a whole text to write_string
WroteText == last.op \in {"write_string", "print"}

\* the grid g scrolled by one row: row r + 1 moved to row r, bottom blanked
ShiftUp(g, blank) ==
  [row \in Rows |->
     IF row + 1 \in Rows THEN g[row + 1] ELSE [col \in Cols |-> blank]]

RECURSIVE NewLines(_, _)
NewLines(w, n) == IF n = 0 THEN w ELSE NewLines(new_line(w), n - 1)

\* C1 (bounds): in every reachable state column_position <= BUFFER_WIDTH, and
\* every cell index used by the last operation (the reads and writes of
\* write_byte, new_line and clear_line) has row < BUFFER_HEIGHT and
\* col < BUFFER_WIDTH.
C1_Bounds ==
  /\ WRITER.column_position \in 0 .. BUFFER_WIDTH
  /\ \A t \in WRITER.touched : InGrid(t[1], t[2])

\* a text of 2 * BUFFER_WIDTH bytes wrapped once: the column stands at
\* BUFFER_WIDTH and the operation has used every cell of the grid
C1_Witness ==
  /\ last.op = "write_string"
  /\ Len(last.arg) = 2 * BUFFER_WIDTH
  /\ WRITER.scrolls = 1
  /\ WRITER.column_position = BUFFER_WIDTH
  /\ WRITER.touched = Rows \X Cols

\* C3 (wrap): from a cleared screen, a text of n printable bytes without
\* newline, BUFFER_WIDTH < n <= 2 * BUFFER_WIDTH, leaves its first
\* BUFFER_WIDTH bytes in order on row BUFFER_HEIGHT - 2, the other
\* n - BUFFER_WIDTH bytes on the bottom row from column 0, the rest of the
\* bottom row blank, and column_position = n - BUFFER_WIDTH.
C3_Wrap ==
  LET s == last.arg
      n == Len(s)
  IN  (/\ WroteText
       /\ Cleared(pre)
       /\ IsPrintable(s)
       /\ n > BUFFER_WIDTH
       /\ n <= 2 * BUFFER_WIDTH)
      => /\ \A i \in 1 .. BUFFER_WIDTH :
              WRITER.chars[BOTTOM - 1][i - 1] = ScreenChar(s[i], WRITER.color_code)
         /\ \A i \in (BUFFER_WIDTH + 1) .. n :
              WRITER.chars[BOTTOM][i - BUFFER_WIDTH - 1]
                = ScreenChar(s[i], WRITER.color_code)
         /\ \A col \in (n - BUFFER_WIDTH) .. (BUFFER_WIDTH - 1) :
              WRITER.chars[BOTTOM][col] = BlankCell(WRITER)
         /\ WRITER.column_position = n - BUFFER_WIDTH
         /\ WRITER.scrolls = 1

\* BUFFER_WIDTH + 1 bytes, the first two different: byte BUFFER_WIDTH + 1
\* stands at column 0 of the bottom row
C3_Witness ==
  /\ WroteText
  /\ Cleared(pre)
  /\ IsPrintable(last.arg)
  /\ Len(last.arg) = BUFFER_WIDTH + 1
  /\ last.arg[1] # last.arg[2]
  /\ WRITER.chars[BOTTOM][0].ascii_character = last.arg[BUFFER_WIDTH + 1]
  /\ WRITER.chars[BOTTOM - 1][1].ascii_character = last.arg[2]
  /\ WRITER.column_position = 1

\* C4 (scroll): one new_line moves the cell (character and colour) at (r, c)
\* to (r - 1, c) for r in 1 .. BUFFER_HEIGHT - 1, blanks the bottom row and
\* sets column_position to 0; what row 0 held is discarded (the result does
\* not depend on it); N new_line calls leave on row r the original row r + N
\* when r + N < BUFFER_HEIGHT, and a blank row otherwise.
IsNewLineOp == last.op = "write_byte" /\ last.arg = <<NEWLINE>>

C4_Scroll ==
  /\ IsNewLineOp =>
       /\ \A row \in 1 .. BOTTOM : \A col \in Cols :
            WRITER.chars[row - 1][col] = pre.chars[row][col]
       /\ \A col \in Cols : WRITER.chars[BOTTOM][col] = BlankCell(pre)
       /\ WRITER.column_position = 0
       /\ \A other \in BootGrids :
            View(new_line([pre EXCEPT !.chars[0] = other[0]])) = View(WRITER)
  /\ \A n \in 0 .. (BUFFER_HEIGHT + 1) :
       LET after == NewLines(Begin(WRITER), n)
       IN  /\ \A row \in Rows : \A col \in Cols :
                after.chars[row][col] =
                  IF row + n < BUFFER_HEIGHT THEN WRITER.chars[row + n][col]
                  ELSE BlankCell(WRITER)
           /\ n > 0 => after.column_position = 0
           /\ after.scrolls = n

\* a newline written onto the firmware's screen, whose cells all differ and
\* carry another colour than the writer's: row 1 has moved to row 0
C4_Witness ==
  /\ IsNewLineOp
  /\ pre.chars = JunkGrid
  /\ WRITER.chars[0] = JunkGrid[1]
  /\ WRITER.chars[0] # JunkGrid[0]
  /\ WRITER.chars[BOTTOM][0] = BlankCell(WRITER)

\* C6 (newline): from a cleared screen, s1, a newline and s2 (printable, each
\* shorter than BUFFER_WIDTH) leave s1 left-justified on row
\* BUFFER_HEIGHT - 2 and s2 left-justified on the bottom row, with
\* column_position = Len(s2); println(s) leaves s on row BUFFER_HEIGHT - 2
\* from column 0, the bottom row blank and column_position = 0.
RowHolds(w, row, s) ==
  \A col \in Cols :
    w.chars[row][col] =
      IF col < Len(s) THEN ScreenChar(s[col + 1], w.color_code) ELSE BlankCell(w)

C6_Newline ==
  /\ (WroteText /\ Cleared(pre)) =>
       \A k \in 1 .. Len(last.arg) :
         LET s1 == SubSeq(last.arg, 1, k - 1)
             s2 == SubSeq(last.arg, k + 1, Len(last.arg))
         IN  (/\ last.arg[k] = NEWLINE
              /\ IsPrintable(s1) /\ Len(s1) < BUFFER_WIDTH
              /\ IsPrintable(s2) /\ Len(s2) < BUFFER_WIDTH)
             => /\ RowHolds(WRITER, BOTTOM - 1, s1)
                /\ RowHolds(WRITER, BOTTOM, s2)
                /\ WRITER.column_position = Len(s2)
  /\ (/\ last.op = "println" /\ Cleared(pre)
      /\ IsPrintable(last.arg) /\ Len(last.arg) <= BUFFER_WIDTH)
     => /\ RowHolds(WRITER, BOTTOM - 1, last.arg)
        /\ RowHolds(WRITER, BOTTOM, <<>>)
        /\ WRITER.column_position = 0

\* "A\nB" printed on a cleared screen
C6_Witness ==
  /\ last.op = "print"
  /\ Cleared(pre)
  /\ last.arg = <<PRINTABLE_A, NEWLINE, PRINTABLE_B>>
  /\ WRITER.chars[BOTTOM - 1][0].ascii_character = PRINTABLE_A
  /\ WRITER.chars[BOTTOM][0].ascii_character = PRINTABLE_B
  /\ WRITER.column_position = 1

\* C7 (plain write and its frame): n printable non-newline bytes written
\* when column_position + n <= BUFFER_WIDTH are stored in order in the cells
\* (BUFFER_HEIGHT - 1, column_position .. column_position + n - 1) in the
\* writer's colour, column_position advances by n, every other cell and the
\* colour are unchanged, and no scroll occurs.
C7_PlainWrite ==
  LET s == last.arg
      n == Len(s)
      c0 == pre.column_position
  IN  (WroteText /\ IsPrintable(s) /\ c0 + n <= BUFFER_WIDTH)
      => /\ \A row \in Rows : \A col \in Cols :
              WRITER.chars[row][col] =
                IF row = BOTTOM /\ col >= c0 /\ col < c0 + n
                THEN ScreenChar(s[col - c0 + 1], pre.color_code)
                ELSE pre.chars[row][col]
         /\ WRITER.column_position = c0 + n
         /\ WRITER.color_code = pre.color_code
         /\ WRITER.scrolls = 0

\* two different bytes written over the firmware's screen fill the bottom row
\* in call order and leave the rows above as they were
C7_Witness ==
  /\ WroteText
  /\ last.arg = <<PRINTABLE_B, PRINTABLE_A>>
  /\ pre.chars = JunkGrid
  /\ pre.column_position = 0
  /\ WRITER.chars[BOTTOM][0].ascii_character = PRINTABLE_B
  /\ WRITER.chars[BOTTOM][1].ascii_character = PRINTABLE_A
  /\ WRITER.chars[BOTTOM - 1] = JunkGrid[BOTTOM - 1]
  /\ WRITER.column_position = 2

\* C8 (concatenation): print(t1); print(t2) from one context leaves the same
\* grid and column_position as print(t1 ++ t2), for every text and every way
\* of cutting it in two, from every reachable writer state.
C8_Concatenation ==
  last.op = "print" =>
    \A k \in 0 .. Len(last.arg) :
      LET t1 == SubSeq(last.arg, 1, k)
          t2 == SubSeq(last.arg, k + 1, Len(last.arg))
      IN  View(_print(Begin(_print(pre, t1)), t2)) = View(WRITER)

\* a text that wraps and breaks a line, printed where the cut t1 = "AB"
\* leaves the column at BUFFER_WIDTH between the two calls
C8_Witness ==
  /\ last.op = "print"
  /\ Len(last.arg) = BUFFER_WIDTH + 2
  /\ pre.column_position = 0
  /\ IsPrintable(SubSeq(last.arg, 1, BUFFER_WIDTH))
  /\ last.arg[BUFFER_WIDTH + 1] = NEWLINE
  /\ last.arg[BUFFER_WIDTH + 2] = PRINTABLE_A
  /\ _print(pre, SubSeq(last.arg, 1, BUFFER_WIDTH)).column_position = BUFFER_WIDTH
  /\ WRITER.column_position = 1
  /\ WRITER.scrolls = 1

\* C9 (resting column), as stated: after a public operation completes,
\* column_position < BUFFER_WIDTH or the operation ended with a new_line.
IsPublicOp == last.op \in {"write_string", "write_byte", "print", "println"}

EndedWithNewLine ==
  \/ last.op = "println"
  \/ /\ last.op \in {"write_string", "write_byte", "print"}
     /\ Len(last.arg) > 0
     /\ last.arg[Len(last.arg)] = NEWLINE

C9_AsStated ==
  IsPublicOp => (WRITER.column_position < BUFFER_WIDTH \/ EndedWithNewLine)

\* C9 as amended: after a public operation completes column_position <=
\* BUFFER_WIDTH; it is 0 when the operation ended with a new_line; and when
\* the operation's last byte was not a newline, column_position >= 1 stands
\* one past the cell that byte was stored in, so it equals BUFFER_WIDTH once
\* the last column is filled (the wrap waits for the next byte).
StoredByte ==
  IF last.op = "write_byte" THEN last.arg[Len(last.arg)]
  ELSE LET b == last.arg[Len(last.arg)]
       IN  IF b >= SPACE /\ b <= TILDE THEN b ELSE INVALID_GLYPH

C9_RestingColumn ==
  IsPublicOp =>
    /\ WRITER.column_position <= BUFFER_WIDTH
    /\ EndedWithNewLine => WRITER.column_position = 0
    /\ (~EndedWithNewLine /\ Len(last.arg) > 0) =>
         /\ WRITER.column_position >= 1
         /\ WRITER.chars[BOTTOM][WRITER.column_position - 1]
              = ScreenChar(StoredByte, WRITER.color_code)

\* BUFFER_WIDTH printable bytes written from column 0: the row is full, no
\* scroll has happened and the column rests at BUFFER_WIDTH
C9_Witness ==
  /\ last.op = "write_string"
  /\ pre.column_position = 0
  /\ IsPrintable(last.arg)
  /\ Len(last.arg) = BUFFER_WIDTH
  /\ WRITER.scrolls = 0
  /\ WRITER.column_position = BUFFER_WIDTH

\* ============================================= SpecBytes: every byte value
\* A Writer after any short text, then one write_string of a single raw byte
\* (every value of u8) or of one multi-byte encoded character.
EncodedChars ==
  {<<195, 161>>, <<195, 167>>, <<195, 163>>, <<195, 179>>, <<226, 130, 172>>}

InitBytes ==
  /\ boot \in BootGrids
  /\ \E s \in TextsUpTo(BUFFER_WIDTH) :
       /\ WRITER = write_string(Writer_new(boot), s)
       /\ budget = Len(s)
  /\ once = "COMPLETE"
  /\ locked = FALSE
  /\ pc = [c \in Contexts |-> "idle"]
  /\ text = [c \in Contexts |-> <<>>]
  /\ pos = [c \in Contexts |-> 1]
  /\ calls = <<>>
  /\ constructed = 1
  /\ pre = Begin(WRITER)
  /\ last = NoOp
  /\ EnvIdle

WriteRawByte(b) == last.op = "none" /\ WriteString(<<b>>)

WriteEncodedChar(s) == last.op = "none" /\ WriteString(s)

NextBytes ==
  /\ \/ \E b \in U8 : WriteRawByte(b)
     \/ \E s \in EncodedChars : WriteEncodedChar(s)
  /\ UNCHANGED envVars

SpecBytes == InitBytes /\ [][NextBytes]_vars

\* C5 (sanitisation): a byte b passed through write_string is stored as b
\* when 0x20 <= b <= 0x7E, performs a new_line and stores no cell when
\* b = 0x0A, and otherwise stores exactly one cell holding 0xFE; a character
\* encoded as k raw bytes that fit the row gives k consecutive 0xFE cells and
\* leaves the other columns of the row as they were (blank stays blank).
C5_Sanitisation ==
  LET s == last.arg
      n == Len(s)
      c0 == pre.column_position
      blank == BlankCell(pre)
  IN  /\ (last.op = "write_string" /\ n = 1) =>
           LET b == s[1]
               wraps == c0 >= BUFFER_WIDTH
               base == IF wraps THEN ShiftUp(pre.chars, blank) ELSE pre.chars
               col == IF wraps THEN 0 ELSE c0
               glyph == IF b >= 32 /\ b <= 126 THEN b ELSE 254
           IN  IF b = 10
               THEN /\ WRITER.chars = ShiftUp(pre.chars, blank)
                    /\ WRITER.column_position = 0
                    /\ WRITER.scrolls = 1
               ELSE /\ WRITER.chars =
                         [base EXCEPT ![BOTTOM][col] =
                            ScreenChar(glyph, pre.color_code)]
                    /\ WRITER.column_position = col + 1
                    /\ WRITER.scrolls = IF wraps THEN 1 ELSE 0
      /\ (/\ last.op = "write_string" /\ n >= 1
          /\ \A i \in 1 .. n : s[i] >= 128
          /\ c0 + n <= BUFFER_WIDTH) =>
           /\ WRITER.chars =
                [pre.chars EXCEPT ![BOTTOM] =
                   [col \in Cols |->
                      IF col >= c0 /\ col < c0 + n
                      THEN ScreenChar(254, pre.color_code)
                      ELSE pre.chars[BOTTOM][col]]]
           /\ WRITER.column_position = c0 + n

\* a two-byte character written at column 0 of a blank bottom row
C5_Witness ==
  /\ last.op = "write_string"
  /\ last.arg = <<195, 161>>
  /\ pre.column_position = 0
  /\ \A col \in Cols : pre.chars[BOTTOM][col] = BlankCell(pre)
  /\ WRITER.chars[BOTTOM][0].ascii_character = INVALID_GLYPH
  /\ WRITER.chars[BOTTOM][1].ascii_character = INVALID_GLYPH
  /\ WRITER.column_position = 2

\* ======================== SpecConc: several contexts inside _print at once
\* _print is WRITER.lock().write_fmt(args).unwrap(): the first use of WRITER
\* goes through lazy_static's Once, lock() spins on the mutex flag, write_fmt
\* hands the text to write_string byte by byte while the guard is alive, and
\* the guard's drop at the end of the statement clears the flag.
UNBUILT == 0 - 1

\* the static before its initialiser has run: no Writer, only video memory
Unbuilt(memory) ==
  [column_position |-> UNBUILT, color_code |-> UNBUILT, chars |-> memory,
   touched |-> {}, scrolls |-> 0]

ConcStart ==
  /\ boot \in BootGrids
  /\ WRITER = Unbuilt(boot)
  /\ once = "INCOMPLETE"
  /\ locked = FALSE
  /\ pc = [c \in Contexts |-> "idle"]
  /\ text = [c \in Contexts |-> <<>>]
  /\ pos = [c \in Contexts |-> 1]
  /\ calls = <<>>
  /\ constructed = 0
  /\ pre = WRITER
  /\ last = NoOp
  /\ budget = 0

InitConc == ConcStart /\ EnvIdle

seqVars == <<pre, last, budget>>

Started ==
  Len(calls) + Cardinality({c \in Contexts : pc[c] \in {"deref", "build", "lock"}})

\* a context enters _print with some text
Call(c, t) ==
  /\ pc[c] = "idle"
  /\ Started < MaxCalls
  /\ pc' = [pc EXCEPT ![c] = "deref"]
  /\ text' = [text EXCEPT ![c] = t]
  /\ pos' = [pos EXCEPT ![c] = 1]
  /\ UNCHANGED <<WRITER, once, locked, calls, constructed, boot, seqVars>>

\* Once::call_once with the status test one state too wide: a caller that
\* finds the initialiser running runs it as well
once_claims_unless_complete(status) == status # "COMPLETE"

\* Once::call_once: the caller whose compare-and-swap finds INCOMPLETE runs
\* the initialiser
once_claims(status) == status = "INCOMPLETE"

\* Deref of the lazy static: claim the initialisation, or pass if it is
\* complete; a caller that finds it running spins (takes no step)
Deref(c) ==
  /\ pc[c] = "deref"
  /\ \/ /\ once_claims(once)
        /\ once' = "RUNNING"
        /\ pc' = [pc EXCEPT ![c] = "build"]
     \/ /\ ~once_claims(once)
        /\ once = "COMPLETE"
        /\ once' = once
        /\ pc' = [pc EXCEPT ![c] = "lock"]
  /\ UNCHANGED <<WRITER, locked, text, pos, calls, constructed, boot, seqVars>>

\* the initialiser: Mutex::new(Writer { column_position: 0, color_code:
\* Cyan on Black, buffer: video memory }), then the status becomes COMPLETE
Build(c) ==
  /\ pc[c] = "build"
  /\ WRITER' = Writer_new(WRITER.chars)
  /\ locked' = FALSE
  /\ once' = "COMPLETE"
  /\ constructed' = constructed + 1
  /\ pc' = [pc EXCEPT ![c] = "lock"]
  /\ UNCHANGED <<text, pos, calls, boot, seqVars>>

\* a lock() that takes the guard without looking at the flag
try_lock_blind(flag) == TRUE

\* Mutex::lock: the compare-and-swap of the flag succeeds only when it is clear
try_lock(flag) == ~flag

Lock(c) ==
  /\ pc[c] = "lock"
  /\ try_lock(locked)
  /\ locked' = TRUE
  /\ pc' = [pc EXCEPT ![c] = "write"]
  /\ calls' = Append(calls, [ctx |-> c, text |-> text[c]])
  /\ WRITER' = Begin(WRITER)
  /\ UNCHANGED <<once, text, pos, constructed, boot, seqVars>>

\* one iteration of write_string's loop, under the guard
WriteStep(c) ==
  /\ pc[c] = "write"
  /\ pos[c] <= Len(text[c])
  /\ WRITER' = write_byte(WRITER, sanitize(text[c][pos[c]]))
  /\ pos' = [pos EXCEPT ![c] = @ + 1]
  /\ UNCHANGED <<once, locked, pc, text, calls, constructed, boot, seqVars>>

\* the end of _print with the guard leaked: the flag stays set
Unlock_leaks_guard(c) ==
  /\ pc[c] = "write"
  /\ pos[c] > Len(text[c])
  /\ pc' = [pc EXCEPT ![c] = "idle"]
  /\ UNCHANGED <<WRITER, once, locked, text, pos, calls, constructed, boot,
                 seqVars>>

\* write_fmt has returned Ok, unwrap passes, the guard is dropped
Unlock(c) ==
  /\ pc[c] = "write"
  /\ pos[c] > Len(text[c])
  /\ locked' = FALSE
  /\ pc' = [pc EXCEPT ![c] = "idle"]
  /\ UNCHANGED <<WRITER, once, text, pos, calls, constructed, boot, seqVars>>

NextConc ==
  /\ \E c \in Contexts :
       \/ \E t \in ConcTexts : Call(c, t)
       \/ Deref(c)
       \/ Build(c)
       \/ Lock(c)
       \/ WriteStep(c)
       \/ Unlock(c)
  /\ UNCHANGED envVars

SpecConc == InitConc /\ [][NextConc]_vars

\* ---------------------------------------------------- claims under SpecConc
Holders == {c \in Contexts : pc[c] = "write"}

\* the calls so far run one after another, in the order the lock was taken;
\* of the call whose context still holds the lock, the bytes written so far
RECURSIVE RunCalls(_, _)
RunCalls(w, k) ==
  IF k = 0 THEN w
  ELSE LET call == calls[k]
           whole == k < Len(calls) \/ Holders = {}
           upto == IF whole THEN Len(call.text) ELSE pos[call.ctx] - 1
       IN  write_string(RunCalls(w, k - 1), SubSeq(call.text, 1, upto))

OneAfterAnother == RunCalls(Writer_new(boot), Len(calls))

\* C2 (mutual exclusion and serialisation): at most one context holds the
\* Writer at any time, the flag is set exactly while one does, and the grid
\* and column_position are at every moment those of the calls run whole, one
\* after another, in the order the lock was taken (the holder's call up to
\* the byte it has reached): no call's bytes fall inside another call's.
C2_Serialised ==
  /\ Cardinality(Holders) <= 1
  /\ locked <=> Holders # {}
  /\ Holders # {} => calls[Len(calls)].ctx \in Holders
  /\ once = "COMPLETE" => View(WRITER) = View(OneAfterAnother)

\* one context is in the middle of its text while the other, whose earlier
\* call is complete, waits for the lock with a second one
C2_Witness ==
  \E c1, c2 \in Contexts :
    /\ c1 # c2
    /\ pc[c1] = "write" /\ pos[c1] = 2
    /\ pc[c2] = "lock"
    /\ Len(calls) = 2
    /\ calls[1].ctx = c2 /\ calls[2].ctx = c1
    /\ calls[1].text # calls[2].text

\* C10 (lazy single construction): under every interleaving of first
\* accesses the initialiser runs exactly once, giving column_position 0 and
\* the colour Cyan on Black; every context past the deref sees the completed
\* instance; no later access runs it again or puts column_position back.
C10_BuiltOnce ==
  /\ constructed <= 1
  /\ once = "COMPLETE" <=> constructed = 1
  /\ \A c \in Contexts :
       pc[c] \in {"lock", "write"} => once = "COMPLETE"
  /\ Cardinality({c \in Contexts : pc[c] = "build"}) <= 1
  /\ once = "RUNNING" <=> \E c \in Contexts : pc[c] = "build"
  /\ once # "COMPLETE" => WRITER = Unbuilt(boot)
  /\ (once = "COMPLETE" /\ calls = <<>>) => View(WRITER) = View(Writer_new(boot))
  /\ once = "COMPLETE" =>
       /\ WRITER.color_code = 3
       /\ WRITER.column_position = OneAfterAnother.column_position

\* two contexts have both been through the deref and printed; the second
\* call started from the column the first one left, not from 0
C10_Witness ==
  /\ constructed = 1
  /\ once = "COMPLETE"
  /\ Len(calls) = 2
  /\ calls[1].ctx # calls[2].ctx
  /\ calls[1].text = <<PRINTABLE_A, PRINTABLE_B>>
  /\ calls[2].text = <<PRINTABLE_A, PRINTABLE_B>>
  /\ Holders = {}
  /\ WRITER.scrolls = 1
  /\ WRITER.column_position = BUFFER_WIDTH

\* ================= SpecIrq: one processor, interrupt handlers that print
\* Context 1 is ordinary code.  An interrupt suspends the running context and
\* runs a handler to its return; _print does not mask interrupts, so one may
\* arrive anywhere, also between lock() and the guard's drop.  A handler
\* prints through the same _print.
NORMAL == 1

InStack(c) == \E i \in 1 .. Len(stack) : stack[i] = c
Running == stack[Len(stack)]
InHandler == Len(stack) > 1

InitIrq ==
  /\ ConcStart
  /\ stack = <<NORMAL>>
  /\ irq_held = FALSE
  /\ fault = [c \in Contexts |-> "none"]

\* an interrupt arrives: a handler starts on top of the running context
Interrupt(h) ==
  /\ ~InStack(h)
  /\ pc[h] = "idle"
  /\ stack' = Append(stack, h)
  /\ UNCHANGED <<WRITER, concVars, seqVars, irq_held, fault>>

\* the handler returns: the interrupted context runs again
IrqReturn ==
  /\ InHandler
  /\ pc[Running] = "idle"
  /\ stack' = SubSeq(stack, 1, Len(stack) - 1)
  /\ UNCHANGED <<WRITER, concVars, seqVars, irq_held, fault>>

\* the running context enters _print
Enter(t) ==
  /\ Call(Running, t)
  /\ irq_held' = (irq_held \/ (InHandler /\ locked))
  /\ UNCHANGED <<stack, fault>>

\* the running context takes its next step inside _print; every other
\* context is suspended
Run ==
  /\ \/ Deref(Running)
     \/ Build(Running)
     \/ Lock(Running)
     \/ WriteStep(Running)
     \/ Unlock(Running)
  /\ UNCHANGED envVars

NextIrq ==
  \/ \E h \in Contexts : Interrupt(h)
  \/ IrqReturn
  \/ \E t \in ConcTexts : Enter(t)
  \/ Run

SpecIrq == InitIrq /\ [][NextIrq]_vars

\* handler h waits in lock() for the guard that c, a context it interrupted
\* (directly or not), took before the interrupt
Below(c, h) ==
  \E i, j \in 1 .. Len(stack) : i < j /\ stack[i] = c /\ stack[j] = h

Spinning(h, c) ==
  /\ Below(c, h)
  /\ pc[h] = "lock"
  /\ pc[c] = "write"
  /\ locked

Deadlocked == \E h, c \in Contexts : Spinning(h, c)

\* C11 (interrupt re-entrance deadlock): once a handler waits in lock() for a
\* guard held by a context it interrupted, no step ends it: the handler stays
\* in lock(), the holder stays where it was interrupted, writes nothing more
\* and the flag stays set; and such a state arises only after a handler
\* entered _print while an interrupted context held the lock.
C11_IrqDeadlock ==
  /\ [](Deadlocked => irq_held)
  /\ [][\A h, c \in Contexts :
          Spinning(h, c) =>
            /\ Spinning(h, c)'
            /\ pos'[c] = pos[c]
            /\ View(WRITER') = View(WRITER)]_vars

\* ordinary code is interrupted after the first byte of its text, and the
\* handler's print waits for the lock
C11_Witness ==
  \E h \in Contexts :
    /\ stack = <<NORMAL, h>>
    /\ Spinning(h, NORMAL)
    /\ pos[NORMAL] = 2
    /\ irq_held

\* =========================== SpecPanic: panics and main.rs's panic handler
\* #[panic_handler] fn panic(info) -> ! { println!("{}", info); loop {} }
\* A panic may be raised by ordinary code, or inside write_fmt while _print's
\* guard is alive (a formatted argument's fmt panics); nothing unwinds, so
\* the guard is not dropped.
PANIC_TEXT == <<PRINTABLE_A, NEWLINE>>

\* a panic inside write_fmt, under the guard
PanicInWrite(c) ==
  /\ pc[c] = "write"
  /\ fault[c] = "none"
  /\ pc' = [pc EXCEPT ![c] = "panic"]
  /\ fault' = [fault EXCEPT ![c] = "held"]
  /\ UNCHANGED <<WRITER, once, locked, text, pos, calls, constructed, boot,
                 seqVars, stack, irq_held>>

\* a panic in ordinary code, outside _print
PanicOutside(c) ==
  /\ pc[c] = "idle"
  /\ fault[c] = "none"
  /\ pc' = [pc EXCEPT ![c] = "panic"]
  /\ fault' = [fault EXCEPT ![c] = "free"]
  /\ UNCHANGED <<WRITER, once, locked, text, pos, calls, constructed, boot,
                 seqVars, stack, irq_held>>

\* the handler's println!("{}", info): it enters _print, whatever the state
\* of the lock
PanicHandler(c) ==
  /\ pc[c] = "panic"
  /\ pc' = [pc EXCEPT ![c] = "deref"]
  /\ text' = [text EXCEPT ![c] = PANIC_TEXT]
  /\ pos' = [pos EXCEPT ![c] = 1]
  /\ UNCHANGED <<WRITER, once, locked, calls, constructed, boot, seqVars,
                 envVars>>

\* the handler's loop {} after println! has returned
Halt(c) ==
  /\ pc[c] = "idle"
  /\ fault[c] # "none"
  /\ pc' = [pc EXCEPT ![c] = "halt"]
  /\ UNCHANGED <<WRITER, once, locked, text, pos, calls, constructed, boot,
                 seqVars, envVars>>

NextPanic ==
  \E c \in Contexts :
    \/ /\ fault[c] = "none"
       /\ \E t \in ConcTexts : Call(c, t)
       /\ UNCHANGED envVars
    \/ /\ \/ Deref(c)
          \/ Build(c)
          \/ Lock(c)
          \/ WriteStep(c)
          \/ Unlock(c)
       /\ UNCHANGED envVars
    \/ PanicInWrite(c)
    \/ PanicOutside(c)
    \/ PanicHandler(c)
    \/ Halt(c)

SpecPanic == InitConc /\ [][NextPanic]_vars

\* C12 (panic path does not re-enter the lock): a context whose panic came
\* while it held the Writer lock is never inside lock() again.
C12_NoReentry ==
  \A c \in Contexts : ~(fault[c] = "held" /\ pc[c] = "lock")

\* ============================== SpecFair: contexts that keep on printing
\* The contexts of SpecConc, each taking a step whenever it can (a processor
\* does not stop), and calling _print again and again.  The history of calls
\* is dropped between calls so that it does not grow without end.
Forget ==
  /\ calls # <<>>
  /\ \A c \in Contexts : pc[c] # "write"
  /\ calls' = <<>>
  /\ UNCHANGED <<WRITER, once, locked, pc, text, pos, constructed, boot,
                 seqVars, envVars>>

\* the next step of context c inside _print
Step(c) ==
  /\ \/ Deref(c)
     \/ Build(c)
     \/ Lock(c)
     \/ WriteStep(c)
     \/ Unlock(c)
  /\ UNCHANGED envVars

\* the texts printed over and over
FairTexts == {<<PRINTABLE_A, NEWLINE>>}

NextFair ==
  \/ \E c \in Contexts : \E t \in FairTexts : Call(c, t) /\ UNCHANGED envVars
  \/ \E c \in Contexts : Step(c)
  \/ Forget

SpecFair ==
  /\ InitConc
  /\ [][NextFair]_vars
  /\ \A c \in Contexts : WF_vars(Step(c))

InCall(c) == pc[c] # "idle"

\* every call that starts comes to its end
EveryCallCompletes == \A c \in Contexts : InCall(c) ~> ~InCall(c)

\* C15 (progress of print), as stated: with each context scheduled fairly,
\* every print call that starts eventually takes the lock, writes all its
\* bytes and releases the lock.
C15_AsStated == EveryCallCompletes

\* a context spinning in lock() that finds the flag clear again and again
\* eventually wins it
LockIsFair == \A c \in Contexts : SF_vars(Lock(c) /\ UNCHANGED envVars)

\* C15 as amended: provided a waiter that finds the lock free again and
\* again eventually wins it, every print call that starts eventually takes
\* the lock, writes all its bytes and releases it; lock() has no failing
\* outcome (a context leaves "lock" only as the holder), and the lock is
\* free whenever no call is past lock().
C15_Progress ==
  /\ LockIsFair => EveryCallCompletes
  /\ [](Holders = {} => ~locked)
  /\ [][\A c \in Contexts :
          (pc[c] = "lock" /\ pc'[c] # "lock") =>
            (pc'[c] = "write" /\ locked' /\ ~locked)]_vars

\* two contexts have each printed their line, one after the other, and the
\* first is already inside its next call
C15_Witness ==
  \E c1, c2 \in Contexts :
    /\ c1 # c2
    /\ Len(calls) = 2
    /\ calls[1].ctx = c1 /\ calls[2].ctx = c2
    /\ pc[c2] = "idle" /\ pc[c1] = "lock"
    /\ ~locked
    /\ WRITER.chars[BOTTOM - 1][0].ascii_character = PRINTABLE_A
    /\ WRITER.chars[BOTTOM - 2][0].ascii_character = PRINTABLE_A
    /\ WRITER.column_position = 0

\* ------------------------------------------------- more claims under Spec
\* C13 (clear): clear_line(row), for every row of the grid, leaves each cell
\* of the row equal to (space, the writer's colour), leaves the other rows,
\* column_position and the colour as they were, and done twice changes
\* nothing more; clear_screen leaves every cell blank and column_position 0.
C13_Clear ==
  /\ \A row \in Rows :
       LET once_cleared == clear_line(Begin(WRITER), row)
           twice_cleared == clear_line(once_cleared, row)
       IN  /\ \A col \in Cols :
                once_cleared.chars[row][col] = ScreenChar(32, WRITER.color_code)
           /\ \A other \in Rows \ {row} :
                once_cleared.chars[other] = WRITER.chars[other]
           /\ once_cleared.column_position = WRITER.column_position
           /\ once_cleared.color_code = WRITER.color_code
           /\ once_cleared.touched = {row} \X Cols
           /\ View(twice_cleared) = View(once_cleared)
  /\ last.op = "clear_screen" =>
       /\ \A row \in Rows : \A col \in Cols :
            WRITER.chars[row][col] = ScreenChar(32, WRITER.color_code)
       /\ WRITER.column_position = 0
       /\ View(clear_screen(Begin(WRITER))) = View(WRITER)

\* the screen has been cleared after the firmware's content was written over
\* up to the byte budget: every cell was touched, the column is back at 0
C13_Witness ==
  /\ last.op = "clear_screen"
  /\ boot = JunkGrid
  /\ WRITER.touched = Rows \X Cols
  /\ WRITER.chars[0][0] = BlankCell(WRITER)
  /\ WRITER.chars[0][0] # boot[0][0]
  /\ WRITER.column_position = 0

\* the bottom row of w is empty: blank cells and the column at 0
EmptyBottomRow(w) ==
  /\ w.column_position = 0
  /\ \A col \in Cols : w.chars[BOTTOM][col] = BlankCell(w)

\* C16 (wrap is deferred): exactly BUFFER_WIDTH printable bytes written onto
\* an empty bottom row cause no scroll, stand on the bottom row and leave
\* column_position = BUFFER_WIDTH. From any state with the row full, a
\* printable byte scrolls once and lands at column 0 of the bottom row, the
\* full row now one row up; a newline instead scrolls exactly once, so a
\* full-width line ended by a newline has no blank row between it and the
\* bottom row.
C16_WrapDeferred ==
  /\ (/\ WroteText
      /\ EmptyBottomRow(pre)
      /\ IsPrintable(last.arg)
      /\ Len(last.arg) = BUFFER_WIDTH)
     => /\ WRITER.scrolls = 0
        /\ RowHolds(WRITER, BOTTOM, last.arg)
        /\ \A row \in Rows \ {BOTTOM} : WRITER.chars[row] = pre.chars[row]
        /\ WRITER.column_position = BUFFER_WIDTH
  /\ WRITER.column_position = BUFFER_WIDTH =>
       /\ \A b \in {PRINTABLE_A, PRINTABLE_B, SPACE, TILDE} :
            LET next == write_byte(Begin(WRITER), b)
            IN  /\ next.scrolls = 1
                /\ next.chars[BOTTOM][0] = ScreenChar(b, WRITER.color_code)
                /\ \A col \in Cols \ {0} : next.chars[BOTTOM][col] = BlankCell(WRITER)
                /\ next.chars[BOTTOM - 1] = WRITER.chars[BOTTOM]
                /\ next.column_position = 1
       /\ LET broken == write_byte(Begin(WRITER), NEWLINE)
          IN  /\ broken.scrolls = 1
              /\ broken.chars[BOTTOM - 1] = WRITER.chars[BOTTOM]
              /\ \A col \in Cols : broken.chars[BOTTOM][col] = BlankCell(WRITER)
              /\ broken.column_position = 0
  /\ (/\ last.op = "println"
      /\ EmptyBottomRow(pre)
      /\ IsPrintable(last.arg)
      /\ Len(last.arg) = BUFFER_WIDTH)
     => /\ WRITER.scrolls = 1
        /\ RowHolds(WRITER, BOTTOM - 1, last.arg)
        /\ \A row \in 0 .. (BOTTOM - 2) : WRITER.chars[row] = pre.chars[row + 1]
        /\ EmptyBottomRow(WRITER)

\* println of a full-width line of two different bytes onto an empty bottom
\* row: one scroll, the line directly above the blank bottom row
C16_Witness ==
  /\ last.op = "println"
  /\ EmptyBottomRow(pre)
  /\ IsPrintable(last.arg)
  /\ Len(last.arg) = BUFFER_WIDTH
  /\ last.arg[1] # last.arg[BUFFER_WIDTH]
  /\ WRITER.scrolls = 1
  /\ WRITER.chars[BOTTOM - 1][BUFFER_WIDTH - 1].ascii_character
       = last.arg[BUFFER_WIDTH]
  /\ WRITER.chars[BOTTOM][0] = BlankCell(WRITER)

\* ========================================= SpecColor: every pair of colours
\* ColorCode::new applied to each foreground and background of the
\* enumeration, the result put in a Writer as its colour.
ColorNames == DOMAIN Color

NewColor(fg, bg) ==
  /\ last.op = "none"
  /\ WRITER' = [WRITER EXCEPT !.color_code = ColorCode_new(Color[fg], Color[bg])]
  /\ last' = [op |-> "ColorCode_new", arg |-> <<fg, bg>>]
  /\ pre' = Begin(WRITER)
  /\ UNCHANGED <<budget, concVars, envVars>>

NextColor == \E fg \in ColorNames : \E bg \in ColorNames : NewColor(fg, bg)

SpecColor == Init /\ [][NextColor]_vars

\* C14 (colour packing): the enumeration has the 16 codes 0x0..0xF; for
\* every foreground and background ColorCode::new is background * 16 +
\* foreground, fits one byte, and no other pair gives the same code; the
\* shared writer's colour, Cyan on Black, is 0x03.
C14_ColorPacking ==
  /\ {Color[n] : n \in ColorNames} = 0 .. 15
  /\ Cardinality(ColorNames) = 16
  /\ last.op = "none" => WRITER.color_code = 3
  /\ last.op = "ColorCode_new" =>
       LET fg == last.arg[1]
           bg == last.arg[2]
       IN  /\ WRITER.color_code = Color[bg] * 16 + Color[fg]
           /\ WRITER.color_code \in 0 .. 255
           /\ \A fg2 \in ColorNames : \A bg2 \in ColorNames :
                ColorCode_new(Color[fg2], Color[bg2]) = WRITER.color_code
                  => (fg2 = fg /\ bg2 = bg)

\* Yellow on Blue packs to 0x1E
C14_Witness ==
  /\ last.op = "ColorCode_new"
  /\ last.arg = <<"Yellow", "Blue">>
  /\ WRITER.color_code = 30

\* ================================ SpecText: text output on a cleared screen
\* The screen is cleared once after construction (as prepare_test does), then
\* only the text operations run: write_string, print!, println!.
InitText ==
  /\ boot \in BootGrids
  /\ WRITER = Begin(clear_screen(Writer_new(boot)))
  /\ once = "COMPLETE"
  /\ locked = FALSE
  /\ pc = [c \in Contexts |-> "idle"]
  /\ text = [c \in Contexts |-> <<>>]
  /\ pos = [c \in Contexts |-> 1]
  /\ calls = <<>>
  /\ constructed = 1
  /\ pre = WRITER
  /\ last = NoOp
  /\ budget = 0
  /\ EnvIdle

NextText ==
  /\ \/ \E s \in TextsUpTo(MaxBytes - budget) : WriteString(s)
     \/ \E s \in TextsUpTo(MaxBytes - budget) : PrintCall(s)
     \/ \E s \in TextsUpTo(MaxBytes - budget - 1) : PrintlnCall(s)
  /\ UNCHANGED envVars

SpecText == InitText /\ [][NextText]_vars

\* C17 (grid content): from a cleared screen, after any sequence of
\* write_string, print and println calls, every cell's character is in
\* 0x20..0x7E or is 0xFE (so never 0x0A, a control byte or a byte above
\* 0x7E other than 0xFE), every cell's colour is the writer's colour, and
\* the writer's colour is the one it was constructed with.
C17_GridContent ==
  /\ \A row \in Rows : \A col \in Cols :
       LET cell == WRITER.chars[row][col]
       IN  /\ \/ cell.ascii_character \in 32 .. 126
              \/ cell.ascii_character = 254
           /\ cell.ascii_character # 10
           /\ cell.color_code = WRITER.color_code
  /\ WRITER.color_code = pre.color_code
  /\ WRITER.color_code = Writer_new(boot).color_code

\* println of a text with a non-ASCII byte, a line break and a letter: the
\* grid holds the substitute glyph and the letter, and has scrolled twice
C17_Witness ==
  /\ last.op = "println"
  /\ last.arg = <<NON_ASCII, NEWLINE, PRINTABLE_A>>
  /\ WRITER.scrolls = 2
  /\ WRITER.chars[BOTTOM - 2][0].ascii_character = 254
  /\ WRITER.chars[BOTTOM - 1][0].ascii_character = PRINTABLE_A
  /\ boot = JunkGrid

\* ------------------------------------------- more claims under SpecBytes
\* An operation fails only by indexing outside the array (Rust's bounds check
\* panics); the arithmetic cannot overflow while the column stays in range.
Panics(w) ==
  \/ \E t \in w.touched : ~InGrid(t[1], t[2])
  \/ w.column_position \notin 0 .. BUFFER_WIDTH

\* C18 (totality): in every reachable writer state write_byte and
\* write_string complete for every byte 0..255, new_line completes,
\* clear_line completes for every row of the grid, and write_str returns Ok
\* after completing, so the unwrap in _print has nothing to panic on.
C18_Totality ==
  /\ ~Panics(WRITER)
  /\ ~Panics(new_line(Begin(WRITER)))
  /\ \A row \in Rows : ~Panics(clear_line(Begin(WRITER), row))
  /\ last.op = "none" =>
       \A b \in U8 :
         /\ ~Panics(write_byte(Begin(WRITER), b))
         /\ ~Panics(write_string(Begin(WRITER), <<b>>))
         /\ LET r == write_str(Begin(WRITER), <<b>>)
            IN  r.result = "Ok" /\ ~Panics(r.writer)
  /\ last.op = "write_string" =>
       LET r == write_str(pre, last.arg)
       IN  /\ r.result = "Ok"
           /\ View(r.writer) = View(WRITER)
           /\ View(_print(pre, last.arg)) = View(WRITER)

\* the byte 0x00 written with the row full: the write wrapped, used every
\* cell of the grid and stored the substitute glyph at column 0
C18_Witness ==
  /\ last.op = "write_string"
  /\ last.arg = <<0>>
  /\ pre.column_position = BUFFER_WIDTH
  /\ WRITER.scrolls = 1
  /\ WRITER.touched = Rows \X Cols
  /\ WRITER.chars[BOTTOM][0].ascii_character = 254
  /\ WRITER.column_position = 1

====
